---------------------------- MODULE Spec2Model ----------------------------
(***************************************************************************)
(* Model of the RF Explorer protocol engine (package rfx, protocol.go):    *)
(* the background read loop with its frame decoder, the packet dispatch    *)
(* channel, the open handshake (New), Close, and the synchronous preset    *)
(* acknowledgment (UpdatePreset).                                          *)
(*                                                                         *)
(* Bytes are the integers 0..255.  The decode buffer is the Go slice       *)
(* buf (8192 bytes, zero-initialised): it is kept as the sequence of its   *)
(* bytes up to the last non-zero one, every byte beyond it being zero.     *)
(* Indices are 0-based as in the source; BufAt converts.                   *)
(***************************************************************************)
EXTENDS Integers, Sequences, FiniteSets, TLC

(***************************************************************************)
(* Program constants                                                       *)
(***************************************************************************)
BufCap == 8192
ReadChCap == 16
EndOfPresetChCap == 1
ScreenDumpMin == 1028
ScreenDataLen == 1024
ScreenEol == 1026
MaxCmdLen == 253
MaxSpectrumSteps == 65535

ChCR == 13
ChLF == 10
ChDollar == 36
ChHash == 35
ChD == 68
ChR == 82
ChS == 83
ChP == 80
ChC == 67
ChK == 75
ChA == 65
ChL == 76
ChF == 70
ChM == 77
ChTwo == 50
ChFour == 52
ChDash == 45
ChColon == 58
ChComma == 44
ChJ == 74
ChLowJ == 106
ChLowN == 110
ChZero == 48
ChOne == 49
ChNine == 57
ChPlus == 43

ModelNone == 255
ModelInvalid == -1
ModeInvalid == -1
CalculatorModeInvalid == -1

(***************************************************************************)
(* Bounds of the model                                                     *)
(***************************************************************************)
MaxRead == 3
BulkBacklog == 2048
MaxUpdates == 2
MaxPayload == 256
MaxSweepInput == 4200
MaxSweepExInput == 65540
NumCallers == 2

Nil == [type |-> "Nil"]

Max(a, b) == IF a >= b THEN a ELSE b
Min(a, b) == IF a <= b THEN a ELSE b

(***************************************************************************)
(* The decode buffer: a Go []byte of BufCap bytes                          *)
(***************************************************************************)
\* the last index in lo..hi at which s is not zero, 0 when there is none
RECURSIVE LastNonZero(_, _, _)
LastNonZero(s, lo, hi) ==
    IF lo > hi THEN 0
    ELSE IF lo = hi THEN (IF s[lo] # 0 THEN lo ELSE 0)
    ELSE LET mid == (lo + hi) \div 2
             r   == LastNonZero(s, mid + 1, hi)
         IN  IF r # 0 THEN r ELSE LastNonZero(s, lo, mid)

\* the bytes of the slice up to its last non-zero byte (the rest is zero)
TrimZeros(s) == SubSeq(s, 1, LastNonZero(s, 1, Len(s)))

\* buf[i]
BufAt(b, i) == IF i >= 0 /\ i < Len(b) THEN b[i + 1] ELSE 0

\* b[lo:hi] as a sequence
BufSlice(b, lo, hi) == [k \in 1..(hi - lo) |-> BufAt(b, lo + k - 1)]

\* port.Read(buf[off:]) storing the bytes data at offset off
BufStore(b, off, data) ==
    TrimZeros([k \in 1..Max(Len(b), off + Len(data)) |->
                  IF k - 1 >= off /\ k - 1 < off + Len(data)
                  THEN data[k - off]
                  ELSE BufAt(b, k - 1)])

\* copy(buf, buf[k:]): the first BufCap-k bytes are overwritten, the rest stay
BufCompact(b, k) ==
    TrimZeros([i \in 1..Len(b) |->
                  IF i - 1 < BufCap - k THEN BufAt(b, i - 1 + k) ELSE b[i]])

\* bytes.Index(buf[:off], []byte{0x0d, 0x0a})
EolIndex(b, off) ==
    LET hits == {i \in 0..(off - 2) : BufAt(b, i) = ChCR /\ BufAt(b, i + 1) = ChLF}
    IN  IF hits = {} THEN -1
        ELSE CHOOSE i \in hits : \A j \in hits : i <= j

(***************************************************************************)
(* String helpers of the Go standard library, on byte sequences            *)
(***************************************************************************)
IsDigit(c) == c >= ChZero /\ c <= ChNine

\* strings.TrimLeft(s, "0")
RECURSIVE TrimLeftZeros(_)
TrimLeftZeros(s) ==
    IF s # <<>> /\ s[1] = ChZero THEN TrimLeftZeros(Tail(s)) ELSE s

RECURSIVE DigitsValue(_)
DigitsValue(s) ==
    IF s = <<>> THEN 0
    ELSE 10 * DigitsValue(SubSeq(s, 1, Len(s) - 1)) + (s[Len(s)] - ChZero)

\* strconv.Atoi: ok is FALSE on a syntax error (the value is then 0)
Atoi(s) ==
    LET signed == s # <<>> /\ s[1] \in {ChPlus, ChDash}
        digits == IF signed THEN Tail(s) ELSE s
        ok     == digits # <<>> /\ \A k \in 1..Len(digits) : IsDigit(digits[k])
    IN  [ok  |-> ok,
         val |-> IF ~ok THEN 0
                 ELSE IF signed /\ s[1] = ChDash THEN -DigitsValue(digits)
                 ELSE DigitsValue(digits)]

\* strings.Split(s, ",")
RECURSIVE Split(_)
Split(s) ==
    LET commas == {k \in 1..Len(s) : s[k] = ChComma}
    IN  IF commas = {} THEN <<s>>
        ELSE LET k == CHOOSE c \in commas : \A d \in commas : c <= d
             IN  <<SubSeq(s, 1, k - 1)>> \o Split(SubSeq(s, k + 1, Len(s)))

parseASCIIDecimal(s) ==
    IF s = <<>> THEN 0 ELSE Atoi(TrimLeftZeros(s)).val

parseModulation(s) == Atoi(s).val

parseModel(m) ==
    IF m = <<>> THEN ModelNone
    ELSE IF TrimLeftZeros(m) = <<>> THEN 0
    ELSE IF ~Atoi(TrimLeftZeros(m)).ok THEN ModelInvalid
    ELSE Atoi(TrimLeftZeros(m)).val

parseMode(m) ==
    IF m = <<>> THEN ModeInvalid
    ELSE IF TrimLeftZeros(m) = <<>> THEN 0
    ELSE IF ~Atoi(TrimLeftZeros(m)).ok THEN ModeInvalid
    ELSE Atoi(TrimLeftZeros(m)).val

parseCalculatorMode(m) ==
    IF m = <<>> THEN CalculatorModeInvalid
    ELSE IF TrimLeftZeros(m) = <<>> THEN 0
    ELSE IF ~Atoi(TrimLeftZeros(m)).ok THEN CalculatorModeInvalid
    ELSE Atoi(TrimLeftZeros(m)).val

\* binary.LittleEndian.Uint32(buf[i:i+4])
LittleEndianUint32(b, i) ==
    BufAt(b, i) + 256 * BufAt(b, i + 1) + 65536 * BufAt(b, i + 2)
        + 16777216 * BufAt(b, i + 3)

\* int(int8(x))
Int8(x) == IF x >= 128 THEN x - 256 ELSE x

\* faulty variant of SampleTenthsDBm: the byte is read as a signed value
SampleTenthsDBmSigned(adbm) == -(Int8(adbm) * 5)

\* -float64(adbm) / 2.0, in tenths of a dBm (0x11 -> -85, that is -8.5 dBm)
SampleTenthsDBm(adbm) == -(adbm * 5)


(***************************************************************************)
(* Packets                                                                 *)
(***************************************************************************)
CurrentConfigPacket(p) ==
    [type            |-> "CurrentConfig",
     StartFreqKHZ    |-> parseASCIIDecimal(p[1]),
     FreqStepHZ      |-> parseASCIIDecimal(p[2]),
     AmpTopDBM       |-> parseASCIIDecimal(p[3]),
     AmpBottomDBM    |-> parseASCIIDecimal(p[4]),
     SweepSteps      |-> parseASCIIDecimal(p[5]),
     ExpModuleActive |-> p[6] = <<ChOne>>,
     CurrentMode     |-> parseMode(p[7]),
     MinFreqKHZ      |-> parseASCIIDecimal(p[8]),
     MaxFreqKHZ      |-> parseASCIIDecimal(p[9]),
     MaxSpan         |-> parseASCIIDecimal(p[10]),
     RBWKHZ          |-> parseASCIIDecimal(p[11]),
     AmpOffset       |-> parseASCIIDecimal(p[12]),
     CalculatorMode  |-> parseCalculatorMode(p[13])]

CurrentSetupPacket(p) ==
    [type            |-> "CurrentSetup",
     Model           |-> parseModel(p[1]),
     ExpansionModel  |-> IF Len(p) >= 2 THEN parseModel(p[2]) ELSE 0,
     FirmwareVersion |-> IF Len(p) >= 3 THEN TrimLeftZeros(p[3]) ELSE <<>>]

CurrentSnifferConfig(p) ==
    [type               |-> "CurrentSnifferConfig",
     StartFreqKHZ       |-> parseASCIIDecimal(p[1]),
     ExpModuleActive    |-> p[2] = <<ChOne>>,
     CurrentMode        |-> parseMode(p[3]),
     Delay              |-> parseASCIIDecimal(p[4]),
     Modulation         |-> parseModulation(p[5]),
     RBWKHZ             |-> parseASCIIDecimal(p[6]),
     ThresholdTenthsDBM |-> -5 * parseASCIIDecimal(p[7])]

CalibrationAvailabilityPacket(main, exp) ==
    [type |-> "CalibrationAvailability", Mainboard |-> main, Expansion |-> exp]

SweepDataPacket(bytes) ==
    [type    |-> "SweepData",
     Samples |-> [i \in 1..Len(bytes) |-> SampleTenthsDBm(bytes[i])]]

SerialNumberPacket(sn) == [type |-> "SerialNumber", SN |-> sn]

EndOfPresetsPacket == [type |-> "EndOfPresets"]

ScreenImage(data) == [type |-> "ScreenImage", Data |-> data]

RawData(data) == [type |-> "RawData", Data |-> data]

UnhandledPacket(data) == [type |-> "UnhandledPacket", Data |-> data]

\* the "$P" case builds the packet from buf at fixed offsets
PresetPacket(b) ==
    LET nameBytes == BufSlice(b, 5, 17)
        zeros     == {k \in 1..12 : nameBytes[k] = 0}
        ix        == IF zeros = {} THEN 12
                     ELSE (CHOOSE k \in zeros : \A j \in zeros : k <= j) - 1
    IN  [type           |-> "Preset",
         Index          |-> BufAt(b, 3),
         Name           |-> SubSeq(nameBytes, 1, ix),
         MinFreqKHz     |-> LittleEndianUint32(b, 19),
         MaxFreqKHz     |-> LittleEndianUint32(b, 23),
         CalcMode       |-> BufAt(b, 27),
         AmpTopDBm      |-> Int8(BufAt(b, 28)),
         AmpBottomDBm   |-> Int8(BufAt(b, 29)),
         CalcIterations |-> BufAt(b, 30),
         Mainboard      |-> BufAt(b, 31) # 0,
         MarkerMode     |-> BufAt(b, 32)]

(***************************************************************************)
(* One pass of the body of decodeLoop on buf[:off], off > 2.               *)
(* kind "wait":  break (nothing handled, go back to the transport read)    *)
(* kind "emit":  pkt is handed to handlePacket, then eol+2 bytes are       *)
(*               removed; ack says that endOfPresetCh is signalled first   *)
(* kind "panic": an index out of range                                     *)
(***************************************************************************)
Wait == [kind |-> "wait", pkt |-> Nil, eol |-> 0, ack |-> FALSE]
Emit(p, e) == [kind |-> "emit", pkt |-> p, eol |-> e, ack |-> FALSE]
EmitAck(p, e) == [kind |-> "emit", pkt |-> p, eol |-> e, ack |-> TRUE]
Panic == [kind |-> "panic", pkt |-> Nil, eol |-> 0, ack |-> FALSE]

\* if !handled && eolIdx >= 0 { ... UnhandledPacket ... }; if !handled { break }
Fallback(b, eolIdx) ==
    IF eolIdx >= 0 THEN Emit(UnhandledPacket(BufSlice(b, 0, eolIdx)), eolIdx)
    ELSE Wait

\* case 'S' of the '$' switch
DecodeSweep(b, off, eolIdx) ==
    IF eolIdx < 0 THEN Wait
    ELSE IF off > 3
    THEN LET nSamples == BufAt(b, 2)
         IN  IF off < 3 + nSamples THEN Fallback(b, eolIdx)
             ELSE Emit(SweepDataPacket(BufSlice(b, 3, 3 + nSamples)),
                       IF eolIdx < 3 + nSamples
                       THEN Min(3 + nSamples, off)
                       ELSE eolIdx)
    ELSE Fallback(b, eolIdx)

\* faulty variant of DecodeDollar: the "$D" case removes the dump only, not
\* the two bytes after it
DecodeDollarDumpOnly(b, off, eolIdx) ==
    CASE BufAt(b, 1) = ChD ->
            IF off < ScreenDumpMin THEN Wait
            ELSE Emit(ScreenImage(BufSlice(b, 2, 2 + ScreenDataLen)),
                      ScreenEol - 2)
      [] BufAt(b, 1) = ChR ->
            LET nBytes == BufAt(b, 2) + 256 * BufAt(b, 3)
            IN  IF off < nBytes + 4 THEN Wait
                ELSE Emit(RawData(BufSlice(b, 4, 4 + nBytes)), 4 + nBytes)
      [] BufAt(b, 1) = ChS -> DecodeSweep(b, off, eolIdx)
      [] BufAt(b, 1) = ChP -> Emit(PresetPacket(b), eolIdx)
      [] OTHER -> Fallback(b, eolIdx)

\* case '$'
DecodeDollar(b, off, eolIdx) ==
    CASE BufAt(b, 1) = ChD ->
            IF off < ScreenDumpMin THEN Wait
            ELSE Emit(ScreenImage(BufSlice(b, 2, 2 + ScreenDataLen)), ScreenEol)
      [] BufAt(b, 1) = ChR ->
            LET nBytes == BufAt(b, 2) + 256 * BufAt(b, 3)
            IN  IF off < nBytes + 4 THEN Wait
                ELSE Emit(RawData(BufSlice(b, 4, 4 + nBytes)), 4 + nBytes)
      [] BufAt(b, 1) = ChS -> DecodeSweep(b, off, eolIdx)
      [] BufAt(b, 1) = ChP -> Emit(PresetPacket(b), eolIdx)
      [] OTHER -> Fallback(b, eolIdx)

\* case 'C' of the '#' switch; line is buf[:eolIdx]
DecodeHashC(b, eolIdx) ==
    LET line == BufSlice(b, 0, eolIdx)
        p    == Split(SubSeq(line, 7, Len(line)))
    IN  IF ~(eolIdx > 6) THEN Fallback(b, eolIdx)
        ELSE CASE line[3] = ChTwo ->
                    IF line[4] = ChDash /\ line[6] = ChColon
                    THEN CASE line[5] = ChF ->
                                 IF Len(p) < 13 THEN Panic
                                 ELSE Emit(CurrentConfigPacket(p), eolIdx)
                           [] line[5] = ChM ->
                                 Emit(CurrentSetupPacket(p), eolIdx)
                           [] OTHER -> Fallback(b, eolIdx)
                    ELSE Fallback(b, eolIdx)
               [] line[3] = ChFour ->
                    IF line[4] = ChDash /\ line[5] = ChF /\ line[6] = ChColon
                    THEN IF Len(p) < 7 THEN Panic
                         ELSE Emit(CurrentSnifferConfig(p), eolIdx)
                    ELSE Fallback(b, eolIdx)
               [] line[3] = ChA ->
                    IF line[4] = ChL /\ line[5] = ChColon
                    THEN Emit(CalibrationAvailabilityPacket(line[6] = ChOne,
                                                            line[7] = ChOne),
                              eolIdx)
                    ELSE Fallback(b, eolIdx)
               [] OTHER -> Fallback(b, eolIdx)

\* case '#'
DecodeHash(b, off, eolIdx) ==
    IF eolIdx < 0 THEN Wait
    ELSE IF eolIdx < 2 THEN Panic                      \* b[1] with len(b) = 1
    ELSE CASE BufAt(b, 1) = ChC -> DecodeHashC(b, eolIdx)
           [] BufAt(b, 1) = ChS ->
                 IF eolIdx < 3 THEN Panic              \* b[2] with len(b) = 2
                 ELSE IF BufAt(b, 2) = ChLowN
                 THEN Emit(SerialNumberPacket(BufSlice(b, 3, eolIdx)), eolIdx)
                 ELSE Fallback(b, eolIdx)
           [] BufAt(b, 1) = ChP ->
                 IF eolIdx >= 4 /\ BufSlice(b, 0, 4) = <<ChHash, ChP, ChC, ChK>>
                 THEN EmitAck(EndOfPresetsPacket, eolIdx)
                 ELSE Fallback(b, eolIdx)
           [] OTHER -> Fallback(b, eolIdx)

DecodeStep(b, off) ==
    LET eolIdx == EolIndex(b, off)
    IN  CASE BufAt(b, 0) = ChDollar -> DecodeDollar(b, off, eolIdx)
          [] BufAt(b, 0) = ChHash -> DecodeHash(b, off, eolIdx)
          [] OTHER -> Fallback(b, eolIdx)


\* decodeLoop run to its end on a buffer holding off bytes: the packets it
\* hands to handlePacket, in order
RECURSIVE DecodeRun(_, _, _)
DecodeRun(b, off, acc) ==
    IF off > 2
    THEN LET r == DecodeStep(b, off)
         IN  IF r.kind = "emit"
             THEN DecodeRun(BufCompact(b, r.eol + 2), off - (r.eol + 2),
                            Append(acc, r.pkt))
             ELSE acc
    ELSE acc

\* the packets decoded when one transport read returns all of s
DecodeAll(s) == DecodeRun(BufStore(<<>>, 0, s), Len(s), <<>>)

(***************************************************************************)
(* Command encoder                                                         *)
(***************************************************************************)
\* faulty variant of SendCommandFrame: the length byte leaves out the two
\* framing bytes
SendCommandFramePayloadLen(cmd) == <<ChHash, Len(cmd) % 256>> \o cmd

\* SendCommand: writeBuf[0] = '#', writeBuf[1] = byte(2+len(cmd)), then cmd
SendCommandFrame(cmd) == <<ChHash, (2 + Len(cmd)) % 256>> \o cmd

\* RequestConfig: SendCommand("C0")
RequestConfigFrame == SendCommandFrame(<<ChC, ChZero>>)

\* byte(x)
Byte(x) == x % 256

\* binary.LittleEndian.PutUint32, byte k (0..3) of uint32(x); \div rounds down,
\* so the bytes of a negative x are those of its two's complement
PutUint32Byte(x, k) ==
    CASE k = 0 -> x % 256
      [] k = 1 -> (x \div 256) % 256
      [] k = 2 -> (x \div 65536) % 256
      [] OTHER -> (x \div 16777216) % 256

\* the 36-byte frame UpdatePreset builds for preset p (0-based index i)
UpdatePresetFrame(p) ==
    LET name == IF Len(p.Name) > 12 THEN SubSeq(p.Name, 1, 12) ELSE p.Name
    IN  [k \in 1..36 |->
            LET i == k - 1
            IN  CASE i = 0 -> ChHash
                  [] i = 1 -> ChDollar
                  [] i = 2 -> ChC
                  [] i = 3 -> ChP
                  [] i = 4 -> 1
                  [] i = 5 -> Byte(p.Index)
                  [] i >= 6 /\ i < 6 + Len(name) -> name[i - 5]
                  [] i >= 20 /\ i < 24 -> PutUint32Byte(p.MinFreqKHz, i - 20)
                  [] i >= 24 /\ i < 28 -> PutUint32Byte(p.MaxFreqKHz, i - 24)
                  [] i = 28 -> Byte(p.CalcMode)
                  [] i = 29 -> Byte(p.AmpTopDBm)
                  [] i = 30 -> Byte(p.AmpBottomDBm)
                  [] i = 31 -> Byte(p.CalcIterations)
                  [] i = 32 -> IF p.Mainboard THEN 1 ELSE 0
                  [] i = 33 -> Byte(p.MarkerMode)
                  [] i = 34 -> 66
                  [] OTHER -> 0]

\* faulty variant of SendCommandAccepts: the limit is that of the length byte
SendCommandAcceptsByteMax(cmd) == Len(cmd) <= 255

\* if len(cmd) > 253 { return fmt.Errorf(...) }
SendCommandAccepts(cmd) == Len(cmd) <= MaxCmdLen

\* what a command method did: whether it refused its arguments, and the
\* slices it handed to r.write, in order
Refused == [invalid |-> TRUE, frames |-> <<>>]
Issued(frame) == [invalid |-> FALSE, frames |-> <<frame>>]

\* SendCommand: the length check, then r.write(r.writeBuf[:2+len(cmd)])
SendCommand(cmd) ==
    IF SendCommandAccepts(cmd) THEN Issued(SendCommandFrame(cmd)) ELSE Refused

\* SetLCDEnabled fills r.writeBuf[0..3] itself and writes r.writeBuf[:4]
SetLCDEnabled(enabled) ==
    Issued(<<ChHash, 4, ChL, IF enabled THEN ChOne ELSE ChZero>>)

\* Go's integer division truncates toward zero (b > 0 here)
GoDiv(a, b) == IF a >= 0 THEN a \div b ELSE -((-a) \div b)

\* faulty variant of ClampSweepPoints: the upper limit is one byte step too far
ClampSweepPointsWide(steps) ==
    IF steps < 16 THEN 16 ELSE IF steps > 4112 THEN 4112 ELSE steps

\* if steps < 16 { steps = 16 }; if steps > 4096 { steps = 4096 }
ClampSweepPoints(steps) ==
    IF steps < 16 THEN 16 ELSE IF steps > 4096 THEN 4096 ELSE steps

\* SendCommand("CJ" + string([]byte{byte((steps - 16) / 16)}))
SetSweepPoints(steps) ==
    SendCommand(<<ChC, ChJ, Byte(GoDiv(ClampSweepPoints(steps) - 16, 16))>>)

\* if steps < 112 { steps = 112 }; if steps > 65536 { steps = 65536 }
ClampSweepPointsEx(steps) ==
    IF steps < 112 THEN 112 ELSE IF steps > 65536 THEN 65536 ELSE steps

\* SendCommand("Cj" + string([]byte{byte((steps & 0xff00) >> 8), byte(steps & 0xff)}))
\* (steps is not negative after the clamp, so the masks are \div and %)
SetSweepPointsEx(steps) ==
    LET st == ClampSweepPointsEx(steps)
    IN  SendCommand(<<ChC, ChLowJ, Byte((st \div 256) % 256), Byte(st % 256)>>)

\* the decimal digits of n >= 0, most significant first
RECURSIVE DecDigits(_)
DecDigits(n) ==
    IF n < 10 THEN <<ChZero + n>>
    ELSE DecDigits(n \div 10) \o <<ChZero + (n % 10)>>

\* faulty variant of FormatDec: "%d", no padding to the field width
FormatDecUnpadded(v, width) ==
    (IF v < 0 THEN <<ChDash>> ELSE <<>>) \o DecDigits(IF v < 0 THEN -v ELSE v)

\* fmt.Sprintf("%0<width>d", v): the sign first, then zeros up to the width,
\* then the digits; a value too wide for the field is not cut
FormatDec(v, width) ==
    LET neg == v < 0
        d == DecDigits(IF neg THEN -v ELSE v)
        pad == width - Len(d) - (IF neg THEN 1 ELSE 0)
    IN  (IF neg THEN <<ChDash>> ELSE <<>>)
            \o (IF pad > 0 THEN [i \in 1..pad |-> ChZero] ELSE <<>>)
            \o d

\* faulty variant of FreqInRange: only the start frequency is checked
FreqInRangeStartOnly(startFreqKHZ, endFreqKHZ) ==
    ~(startFreqKHZ < 0 \/ startFreqKHZ > 9999999)

\* the negation of SetAnalyzerConfig's first condition
FreqInRange(startFreqKHZ, endFreqKHZ) ==
    ~(startFreqKHZ < 0 \/ endFreqKHZ < 0
        \/ startFreqKHZ > 9999999 \/ endFreqKHZ > 9999999)

\* if ampTopDBm > 0 { ampTopDBm = 0 }; if ampTopDBm < -120 { ampTopDBm = -120 }
ClampAmpTop(ampTopDBm) ==
    LET t == IF ampTopDBm > 0 THEN 0 ELSE ampTopDBm
    IN  IF t < -120 THEN -120 ELSE t

\* faulty variant of ClampAmpBottom: a bottom equal to the top is kept
ClampAmpBottomAllowEqual(ampBottomDBm, ampTopDBm) ==
    IF ampBottomDBm > ampTopDBm \/ ampBottomDBm < -120 THEN -120
    ELSE ampBottomDBm

\* if ampBottomDBm >= ampTopDBm || ampBottomDBm < -120 { ampBottomDBm = -120 }
\* (ampTopDBm is the clamped value)
ClampAmpBottom(ampBottomDBm, ampTopDBm) ==
    IF ampBottomDBm >= ampTopDBm \/ ampBottomDBm < -120 THEN -120
    ELSE ampBottomDBm

\* faulty variant of RbwSuffix: the recomputed RBW is sent whatever its value
RbwSuffixUnchecked(startFreqKHZ, endFreqKHZ, rbwKHZ) ==
    IF rbwKHZ > 0 /\ rbwKHZ >= 3 /\ rbwKHZ <= 670
    THEN LET steps0 == GoDiv(endFreqKHZ - startFreqKHZ + GoDiv(rbwKHZ, 2), rbwKHZ)
             steps1 == IF steps0 < 112 THEN 112 ELSE steps0
             steps == IF steps1 > MaxSpectrumSteps THEN MaxSpectrumSteps ELSE steps1
             rbw2 == GoDiv(endFreqKHZ - startFreqKHZ + GoDiv(steps, 2), steps)
         IN  <<ChComma>> \o FormatDec(rbw2, 5)
    ELSE <<>>

\* rbwKHZStr: empty unless the requested RBW is in [3, 670] and the RBW
\* recomputed from the clamped number of steps is in [3, 620)
RbwSuffix(startFreqKHZ, endFreqKHZ, rbwKHZ) ==
    IF rbwKHZ > 0 /\ rbwKHZ >= 3 /\ rbwKHZ <= 670
    THEN LET steps0 == GoDiv(endFreqKHZ - startFreqKHZ + GoDiv(rbwKHZ, 2), rbwKHZ)
             steps1 == IF steps0 < 112 THEN 112 ELSE steps0
             steps == IF steps1 > MaxSpectrumSteps THEN MaxSpectrumSteps ELSE steps1
             rbw2 == GoDiv(endFreqKHZ - startFreqKHZ + GoDiv(steps, 2), steps)
         IN  IF rbw2 >= 3 /\ rbw2 < 620
             THEN <<ChComma>> \o FormatDec(rbw2, 5)
             ELSE <<>>
    ELSE <<>>

\* SetAnalyzerConfig: the range check, the clamps, then
\* SendCommand(fmt.Sprintf("C2-F:%07d,%07d,%04d,%04d%s", ...))
SetAnalyzerConfig(startFreqKHZ, endFreqKHZ, ampTopDBm, ampBottomDBm, rbwKHZ) ==
    IF ~FreqInRange(startFreqKHZ, endFreqKHZ) THEN Refused
    ELSE LET top == ClampAmpTop(ampTopDBm)
             bottom == ClampAmpBottom(ampBottomDBm, top)
         IN  SendCommand(<<ChC, ChTwo, ChDash, ChF, ChColon>>
                            \o FormatDec(startFreqKHZ, 7) \o <<ChComma>>
                            \o FormatDec(endFreqKHZ, 7) \o <<ChComma>>
                            \o FormatDec(top, 4) \o <<ChComma>>
                            \o FormatDec(bottom, 4)
                            \o RbwSuffix(startFreqKHZ, endFreqKHZ, rbwKHZ))

\* the preset the application writes in the model
AppPreset ==
    [Index |-> 1, Name |-> <<ChA, ChL>>, MinFreqKHz |-> 433000,
     MaxFreqKHz |-> 434000, CalcMode |-> 0, AmpTopDBm |-> -10,
     AmpBottomDBm |-> -110, CalcIterations |-> 1, Mainboard |-> TRUE,
     MarkerMode |-> 0]

(***************************************************************************)
(* Frames the instrument sends, and the byte streams of the model          *)
(***************************************************************************)
CRLF == <<ChCR, ChLF>>

Digit(d) == ChZero + d

\* "#C2-F:<d>,2,0,3,4,0,0,6,7,8,9,0,2" EOL
FrameConfig(d) ==
    <<ChHash, ChC, ChTwo, ChDash, ChF, ChColon,
      Digit(d), ChComma, Digit(2), ChComma, Digit(0), ChComma, Digit(3), ChComma,
      Digit(4), ChComma, Digit(0), ChComma, Digit(0), ChComma, Digit(6), ChComma,
      Digit(7), ChComma, Digit(8), ChComma, Digit(9), ChComma, Digit(0), ChComma,
      Digit(2)>> \o CRLF

\* "$S" <count> <samples> EOL
FrameSweep(samples) == <<ChDollar, ChS, Len(samples)>> \o samples \o CRLF

\* "#PCK" EOL
FramePCK == <<ChHash, ChP, ChC, ChK>> \o CRLF

\* "#K1" EOL: a line no decoder matches
FrameUnknown == <<ChHash, ChK, ChOne>> \o CRLF

\* samples of a sweep frame that hold the bytes 0x0D, 0x0A
SamplesWithEol == <<ChCR, ChLF, 1>>

StreamMixed ==
    FrameUnknown \o FrameConfig(1) \o FrameSweep(<<17, 4>>) \o FrameConfig(2)

StreamPresets == FrameConfig(1) \o FramePCK \o FramePCK

StreamSweepEol == FrameSweep(SamplesWithEol) \o FrameConfig(1)

RECURSIVE Repeat(_, _)
Repeat(frame, n) == IF n = 0 THEN <<>> ELSE frame \o Repeat(frame, n - 1)

\* one more unmatched line than the packet channel holds, then a config line
StreamBurst == Repeat(FrameUnknown, ReadChCap + 1) \o FrameConfig(1)

Streams == {StreamMixed, StreamPresets, StreamSweepEol, StreamBurst}

\* "#" EOL: a '#' line too short to carry a type
FrameBareHash == <<ChHash>> \o CRLF

\* an unmatched line of another first byte, then the bare '#' line
StreamUnmatched == <<ChK, ChOne>> \o CRLF \o FrameBareHash \o FrameUnknown

\* n sample bytes, all values but one when n = 255
SweepSamples(n) == [i \in 1..n |-> (97 * i + 200) % 256]

\* five sample bytes that hold 0x0D, 0x0A
SamplesFive == <<0, 255, ChCR, ChLF, 128>>

\* "$P " index 0x01 name[12] 0 0 minfreq[4] maxfreq[4] calcmode amptop
\* ampbottom calciter mainboard markermode 0x42 0, then EOL: preset 1, "AL",
\* 433000..434000 kHz, -10..-110 dBm
FramePreset ==
    <<ChDollar, ChP, 32, 1, 1, ChA, ChL, 0, 0, 0, 0, 0, 0, 0, 0, 0, 0, 0, 0,
      104, 155, 6, 0, 80, 159, 6, 0, 0, 246, 146, 1, 1, 0, 66, 0>> \o CRLF

StreamPreset == FramePreset \o FrameUnknown

\* the 1024 bytes of a screen dump
Bitmap == [i \in 1..ScreenDataLen |-> (i % 251) + 1]

\* "$D" <1024 bytes> EOL
FrameScreen == <<ChDollar, ChD>> \o Bitmap \o CRLF

StreamScreen == FrameScreen \o FrameUnknown

\* "$R" <length, 2 bytes little-endian> <payload>
FrameRaw(payload) ==
    <<ChDollar, ChR, Len(payload) % 256, Len(payload) \div 256>> \o payload

\* a raw frame of three payload bytes, then "#K1" EOL right behind it
StreamRaw == FrameRaw(<<7, 0, 200>>) \o FrameUnknown

\* a "$R" header declaring 0xFFFF payload bytes and the first BufCap - 4 of
\* them, an end-of-line marker among them: BufCap bytes that hold no frame
BlockRaw ==
    <<ChDollar, ChR, 255, 255>> \o CRLF
        \o [i \in 1..(BufCap - 6) |-> (i % 251) + 1]

\* BufCap bytes of a line that has no end-of-line marker
BlockLine == [i \in 1..BufCap |-> ChK]

\* three well-formed frames: "#K1", a sweep of two samples, a config line
TailFrames == FrameUnknown \o FrameSweep(<<17, 4>>) \o FrameConfig(2)

StreamFillRaw == BlockRaw \o TailFrames

StreamFillLine == BlockLine \o TailFrames

\* "#K" <one byte that tells the lines apart> EOL: unmatched line number i
FrameNumbered(i) == <<ChHash, ChK, ChZero + i>> \o CRLF

RECURSIVE NumberedLines(_)
NumberedLines(n) ==
    IF n = 0 THEN <<>> ELSE NumberedLines(n - 1) \o FrameNumbered(n)

\* two more unmatched lines than the packet channel holds
StreamBacklog == NumberedLines(ReadChCap + 2)

\* what the instrument sends once it has received a preset update: other
\* lines, then "#PCK"; two lines, or one more than the packet channel holds
AckStreams ==
    {NumberedLines(2) \o FramePCK, NumberedLines(ReadChCap + 1) \o FramePCK}

\* "#C2-F:1,2" EOL: a config line of two fields
LineShortConfig ==
    <<ChHash, ChC, ChTwo, ChDash, ChF, ChColon, Digit(1), ChComma, Digit(2)>>
        \o CRLF

\* "#C4-F:1,2" EOL: a sniffer config line of two fields
LineShortSniffer ==
    <<ChHash, ChC, ChFour, ChDash, ChF, ChColon, Digit(1), ChComma, Digit(2)>>
        \o CRLF

\* "#S" EOL and "#P" EOL: lines shorter than "#Sn" and "#PCK"
LineShortSerial == <<ChHash, ChS>> \o CRLF

LineShortPreset == <<ChHash, ChP>> \o CRLF

\* each short line with "#K1" EOL behind it
ShortLineStreams ==
    {line \o FrameUnknown :
        line \in {LineShortConfig, LineShortSniffer, LineShortSerial,
                  LineShortPreset}}

\* what the instrument sends after the config line that New consumed
DecStreams ==
    {StreamUnmatched, FrameSweep(<<>>), FrameSweep(SamplesFive),
     FrameSweep(SweepSamples(255)), StreamPreset, StreamScreen, StreamRaw,
     StreamFillRaw, StreamFillLine} \cup ShortLineStreams

(***************************************************************************)
(* Calls of the command methods: the arguments the model tries             *)
(***************************************************************************)
\* the goroutines that call SendCommand at the same time
Callers == 1..NumCallers

\* the commands they send: "C0", "CP\x00", "L1"
RaceCmds == {<<ChC, ChZero>>, <<ChC, ChP, 0>>, <<ChL, ChOne>>}

Call(op, cmd, args) == [op |-> op, cmd |-> cmd, args |-> args]

NoCall == Call("none", <<>>, <<>>)

\* a command string of n bytes
Payload(n) == IF n = 0 THEN <<>> ELSE [i \in 1..n |-> (37 * i) % 256]

SweepInputs == -2..MaxSweepInput

SweepExInputs ==
    (-2..300) \cup {256 * k + d : k \in 1..255, d \in {-1, 0, 1}}
        \cup (65280..MaxSweepExInput)

FreqInputs ==
    {-1, 0, 224, 336, 1000, 69328, 69440, 433000, 434000, 9999999, 10000000}

AmpTopInputs == {-200, -121, -120, -50, 0, 7}

AmpBottomInputs == {-1000, -121, -120, -110, -50, 0, 7}

RbwInputs == {-5, 0, 2, 3, 5, 619, 620, 670, 671}

EncCalls ==
    {Call("SendCommand", Payload(n), <<>>) : n \in 0..MaxPayload}
        \cup {Call("SetLCDEnabled", <<>>, <<b>>) : b \in BOOLEAN}
        \cup {Call("SetSweepPoints", <<>>, <<n>>) : n \in SweepInputs}
        \cup {Call("SetSweepPointsEx", <<>>, <<n>>) : n \in SweepExInputs}
        \cup {Call("SetAnalyzerConfig", <<>>, <<s, e, t, b, r>>) :
                 s \in FreqInputs, e \in FreqInputs, t \in AmpTopInputs,
                 b \in AmpBottomInputs, r \in RbwInputs}

(***************************************************************************)
(* State                                                                   *)
(***************************************************************************)
VARIABLES
    stream,         \* the bytes the instrument sends over the transport
    pos,            \* how many of them port.Read has returned
    portClosed,     \* port.Close() has been called
    buf, off,       \* readLoop: the decode buffer and its valid length
    loopPc,         \* readLoop: idle, read, check, decode, send, stopped,
                    \*           fatal (log.Fatal), panic
    readN,          \* readLoop: n of the last port.Read
    readErr,        \* why the last port.Read failed: none, io, closed
    pendPkt,        \* readLoop: the packet handlePacket is sending
    pendEol,        \* readLoop: eolIdx of the frame being handled
    readCh,         \* r.readCh, the buffered packet channel
    readChClosed,   \* close(r.readCh) has run
    closeChClosed,  \* close(r.closeCh) has run
    endOfPresetCh,  \* number of signals buffered in r.endOfPresetCh
    config,         \* r.config (atomic.Value), Nil before the first Store
    newPc,          \* New: start, request, setupLoop, done, failed, panic
    written,        \* the writes the transport has accepted, in order
    closePc,        \* Close: idle, signalled, chanClosed, done
    upPc,           \* UpdatePreset: idle, drain, write, wait
    upResult,       \* result of the last UpdatePreset: none, ok, cancelled, error
    upCalls,        \* number of UpdatePreset calls made
    decoded,        \* history: packets handed to handlePacket, in order
    setupTaken,     \* history: packets New received from Chan()
    appReceived,    \* history: packets the application received from Chan()
    sinceDrain,     \* history: "#PCK" lines decoded since the last drain
    sinceWrite,     \* history: "#PCK" lines decoded since the last write of
                    \*          UpdatePreset
    drainedStale,   \* history: signals removed by the drain of UpdatePreset
    droppedSignals, \* history: signals the read loop dropped on a full channel
    ackedCount,     \* history: UpdatePreset calls completed by a signal
    encCall,        \* the command method under study and its arguments
    encPc,          \* that call: idle (none), call, returned
    encResult,      \* its result: none, ok, invalid, writeError
    encWrites,      \* the slices it handed to port.Write, in order
    writeBuf,       \* r.writeBuf, shared by every caller of SendCommand
    sendPc,         \* per caller of SendCommand: idle, check, hash, len, copy,
                    \*                            write, done
    sendCmd,        \* per caller of SendCommand: its cmd argument
    resetAt         \* history: <<pos, Len(decoded)>> at the last off = 0 reset
                    \*          of a buffer near its capacity, <<>> before it

vars == <<stream, pos, portClosed, buf, off, loopPc, readN, readErr, pendPkt,
          pendEol, readCh, readChClosed, closeChClosed, endOfPresetCh, config,
          newPc, written, closePc, upPc, upResult, upCalls, decoded,
          setupTaken, appReceived, sinceDrain, sinceWrite, drainedStale, droppedSignals,
          ackedCount, encCall, encPc, encResult, encWrites, writeBuf, sendPc,
          sendCmd, resetAt>>

loopVars == <<buf, off, loopPc, readN, readErr, pendPkt, pendEol>>
histVars == <<decoded, setupTaken, appReceived, sinceDrain, sinceWrite, drainedStale,
              droppedSignals, ackedCount>>
closeVars == <<portClosed, readChClosed, closeChClosed, closePc>>
upVars == <<upPc, upResult, upCalls>>
encVars == <<encCall, encPc, encResult, encWrites>>
sendVars == <<writeBuf, sendPc, sendCmd>>
connVars == <<stream, pos, portClosed, buf, off, loopPc, readN, readErr,
              pendPkt, pendEol, readCh, readChClosed, closeChClosed,
              endOfPresetCh, config, newPc, written, closePc, upPc, upResult,
              upCalls, decoded, setupTaken, appReceived, sinceDrain, sinceWrite,
              drainedStale, droppedSignals, ackedCount>>

\* log.Fatal and an unrecovered panic both end the whole process
ProcessAlive == loopPc \notin {"fatal", "panic"} /\ newPc # "panic"

Init ==
    /\ stream \in Streams
    /\ pos = 0
    /\ portClosed = FALSE
    /\ buf = <<>>
    /\ off = 0
    /\ loopPc = "idle"
    /\ readN = 0
    /\ readErr = "none"
    /\ pendPkt = Nil
    /\ pendEol = 0
    /\ readCh = <<>>
    /\ readChClosed = FALSE
    /\ closeChClosed = FALSE
    /\ endOfPresetCh = 0
    /\ config = Nil
    /\ newPc = "start"
    /\ written = <<>>
    /\ closePc = "idle"
    /\ upPc = "idle"
    /\ upResult = "none"
    /\ upCalls = 0
    /\ decoded = <<>>
    /\ setupTaken = <<>>
    /\ appReceived = <<>>
    /\ sinceDrain = 0
    /\ sinceWrite = 0
    /\ drainedStale = 0
    /\ droppedSignals = 0
    /\ ackedCount = 0
    /\ encCall = NoCall
    /\ encPc = "idle"
    /\ encResult = "none"
    /\ encWrites = <<>>
    /\ writeBuf = <<>>
    /\ sendPc = [c \in Callers |-> "idle"]
    /\ sendCmd = [c \in Callers |-> <<>>]
    /\ resetAt = <<>>


(***************************************************************************)
(* Channels                                                                *)
(***************************************************************************)
\* faulty variant of ChanSend: the packet overtakes those already buffered
ChanSendFront(ch, pkt) == <<pkt>> \o ch

\* r.readCh <- pkt (handlePacket), once the channel has room
ChanSend(ch, pkt) == Append(ch, pkt)

\* faulty variant of SignalEndOfPreset: the signal is queued behind a pending one
SignalQueued(n) == n + 1

\* case r.endOfPresetCh <- struct{}{}: default:   (non-blocking send)
SignalEndOfPreset(n) == IF n < EndOfPresetChCap THEN n + 1 ELSE n

\* faulty variant of DrainEndOfPreset: the stale signal is left in the channel
DrainNothing(n) == n

\* case <-r.endOfPresetCh: default:   (non-blocking receive before the write)
DrainEndOfPreset(n) == 0

\* faulty variant of SetupAccepts: the first packet of any type ends the setup loop
SetupAcceptsAny(pkt) == TRUE

\* the type switch of New's setupLoop: only a *CurrentConfigPacket ends it
SetupAccepts(pkt) == pkt.type = "CurrentConfig"

(***************************************************************************)
(* readLoop                                                                *)
(***************************************************************************)
\* faulty variant of ResetOff: a full buffer is never discarded
ResetOffNever(o) == IF o > BufCap THEN 0 ELSE o

\* if off >= len(buf)-1 { off = 0 }
ResetOff(o) == IF o >= BufCap - 1 THEN 0 ELSE o

\* sizes a transport read may return: nothing, a few bytes, or all there is
\* (as much of it as buf[off:] holds); of a backlog of more than BulkBacklog
\* bytes a read returns as much as buf[off:] holds, or up to MaxRead less
ReadSizes(room) ==
    LET rest == Len(stream) - pos
        most == Min(rest, room)
    IN  IF rest > BulkBacklog
        THEN {n \in (most - MaxRead)..most : n >= 0}
        ELSE {n \in (0..MaxRead) \cup {most} : n <= rest /\ n <= room}

\* top of the loop and n, err := r.port.Read(buf[off:]); log.Fatal on an error
LoopRead ==
    /\ ProcessAlive
    /\ loopPc = "read"
    /\ IF ResetOff(off) < 0
       THEN \* buf[off:] with a negative offset: slice bounds out of range
            /\ loopPc' = "panic"
            /\ UNCHANGED <<buf, off, readN, readErr, pos, resetAt>>
       ELSE /\ resetAt' = IF ResetOff(off) # off THEN <<pos, Len(decoded)>>
                          ELSE resetAt
            /\ \/ /\ ~portClosed
                  /\ \E n \in ReadSizes(BufCap - ResetOff(off)) :
                        /\ buf' = BufStore(buf, ResetOff(off),
                                           SubSeq(stream, pos + 1, pos + n))
                        /\ pos' = pos + n
                        /\ readN' = n
                  /\ off' = ResetOff(off)
                  /\ loopPc' = "check"
                  /\ UNCHANGED readErr
               \/ /\ readErr' = IF portClosed THEN "closed" ELSE "io"
                  /\ loopPc' = "fatal"
                  /\ off' = ResetOff(off)
                  /\ UNCHANGED <<buf, readN, pos>>
    /\ UNCHANGED <<stream, pendPkt, pendEol, readCh, endOfPresetCh, config,
                   newPc, written>>
    /\ UNCHANGED <<closeVars, upVars, histVars>>
    /\ UNCHANGED encVars
    /\ UNCHANGED sendVars

\* select { case <-r.closeCh: return; default: }; if n == 0 { continue }; off += n
LoopCheck ==
    /\ ProcessAlive
    /\ loopPc = "check"
    /\ IF closeChClosed
       THEN loopPc' = "stopped" /\ off' = off
       ELSE IF readN = 0
       THEN loopPc' = "read" /\ off' = off
       ELSE loopPc' = "decode" /\ off' = off + readN
    /\ UNCHANGED <<stream, pos, buf, readN, readErr, pendPkt, pendEol, readCh,
                   endOfPresetCh, config, newPc, written>>
    /\ UNCHANGED <<closeVars, upVars, histVars>>
    /\ UNCHANGED encVars
    /\ UNCHANGED <<sendVars, resetAt>>

\* one pass of decodeLoop up to the call of handlePacket
LoopDecode ==
    /\ ProcessAlive
    /\ loopPc = "decode"
    /\ IF off > 2
       THEN LET r == DecodeStep(buf, off)
            IN  CASE r.kind = "wait" ->
                       /\ loopPc' = "read"
                       /\ UNCHANGED <<pendPkt, pendEol, endOfPresetCh, decoded,
                                      sinceDrain, sinceWrite, droppedSignals>>
                  [] r.kind = "panic" ->
                       /\ loopPc' = "panic"
                       /\ UNCHANGED <<pendPkt, pendEol, endOfPresetCh, decoded,
                                      sinceDrain, sinceWrite, droppedSignals>>
                  [] OTHER ->
                       /\ loopPc' = "send"
                       /\ pendPkt' = r.pkt
                       /\ pendEol' = r.eol
                       /\ endOfPresetCh' = IF r.ack
                                           THEN SignalEndOfPreset(endOfPresetCh)
                                           ELSE endOfPresetCh
                       /\ sinceDrain' = IF r.ack THEN sinceDrain + 1
                                        ELSE sinceDrain
                       /\ sinceWrite' = IF r.ack THEN sinceWrite + 1
                                        ELSE sinceWrite
                       /\ droppedSignals' =
                             IF r.ack /\ SignalEndOfPreset(endOfPresetCh) = endOfPresetCh
                             THEN droppedSignals + 1
                             ELSE droppedSignals
                       /\ decoded' = Append(decoded, r.pkt)
       ELSE /\ loopPc' = "read"
            /\ UNCHANGED <<pendPkt, pendEol, endOfPresetCh, decoded, sinceDrain, sinceWrite,
                           droppedSignals>>
    /\ UNCHANGED <<stream, pos, buf, off, readN, readErr, readCh, config, newPc,
                   written, setupTaken, appReceived, drainedStale, ackedCount>>
    /\ UNCHANGED <<closeVars, upVars>>
    /\ UNCHANGED encVars
    /\ UNCHANGED <<sendVars, resetAt>>

\* faulty variant of LoopSend: a packet that finds the channel full is dropped
LoopSendOrDrop ==
    /\ ProcessAlive
    /\ loopPc = "send"
    /\ IF readChClosed
       THEN \* send on closed channel
            /\ loopPc' = "panic"
            /\ UNCHANGED <<readCh, buf, off>>
       ELSE /\ readCh' = IF Len(readCh) < ReadChCap
                         THEN ChanSend(readCh, pendPkt)
                         ELSE readCh
            /\ IF pendEol + 2 > BufCap
               THEN loopPc' = "panic" /\ UNCHANGED <<buf, off>>
               ELSE /\ buf' = BufCompact(buf, pendEol + 2)
                    /\ off' = off - (pendEol + 2)
                    /\ loopPc' = "decode"
    /\ UNCHANGED <<stream, pos, readN, readErr, pendPkt, pendEol, endOfPresetCh,
                   config, newPc, written>>
    /\ UNCHANGED <<closeVars, upVars, histVars>>
    /\ UNCHANGED encVars
    /\ UNCHANGED <<sendVars, resetAt>>

\* handlePacket's channel send, then copy(buf, buf[eolIdx+2:]); off -= eolIdx + 2
LoopSend ==
    /\ ProcessAlive
    /\ loopPc = "send"
    /\ IF readChClosed
       THEN \* send on closed channel
            /\ loopPc' = "panic"
            /\ UNCHANGED <<readCh, buf, off>>
       ELSE /\ Len(readCh) < ReadChCap
            /\ readCh' = ChanSend(readCh, pendPkt)
            /\ IF pendEol + 2 > BufCap
               THEN loopPc' = "panic" /\ UNCHANGED <<buf, off>>
               ELSE /\ buf' = BufCompact(buf, pendEol + 2)
                    /\ off' = off - (pendEol + 2)
                    /\ loopPc' = "decode"
    /\ UNCHANGED <<stream, pos, readN, readErr, pendPkt, pendEol, endOfPresetCh,
                   config, newPc, written>>
    /\ UNCHANGED <<closeVars, upVars, histVars>>
    /\ UNCHANGED encVars
    /\ UNCHANGED <<sendVars, resetAt>>

(***************************************************************************)
(* New                                                                     *)
(***************************************************************************)
\* rf := &RFExplorer{...}; go rf.readLoop()
NewStart ==
    /\ ProcessAlive
    /\ newPc = "start"
    /\ newPc' = "request"
    /\ loopPc' = "read"
    /\ UNCHANGED <<stream, pos, buf, off, readN, readErr, pendPkt, pendEol,
                   readCh, endOfPresetCh, config, written>>
    /\ UNCHANGED <<closeVars, upVars, histVars>>
    /\ UNCHANGED encVars
    /\ UNCHANGED <<sendVars, resetAt>>

\* if err := rf.RequestConfig(); err != nil { return nil, err }
NewRequest ==
    /\ ProcessAlive
    /\ newPc = "request"
    /\ \/ /\ ~portClosed
          /\ written' = Append(written, RequestConfigFrame)
          /\ newPc' = "setupLoop"
       \/ /\ newPc' = "failed"
          /\ UNCHANGED written
    /\ writeBuf' = BufStore(writeBuf, 0, RequestConfigFrame)
    /\ UNCHANGED <<stream, pos, readCh, endOfPresetCh, config>>
    /\ UNCHANGED <<loopVars, closeVars, upVars, histVars>>
    /\ UNCHANGED <<encVars, sendPc, sendCmd, resetAt>>

\* one iteration of setupLoop: pkt, ok := <-rf.Chan()
NewSetupRecv ==
    /\ ProcessAlive
    /\ newPc = "setupLoop"
    /\ IF readCh # <<>>
       THEN /\ readCh' = Tail(readCh)
            /\ setupTaken' = Append(setupTaken, Head(readCh))
            /\ IF SetupAccepts(Head(readCh))
               THEN config' = Head(readCh) /\ newPc' = "done"
               ELSE UNCHANGED <<config, newPc>>
            /\ UNCHANGED closeVars
       ELSE \* !ok: rf.Close(); return nil, error.  Only Close closes readCh,
            \* so closeCh is closed already and close(r.closeCh) panics.
            /\ readChClosed
            /\ IF closeChClosed
               THEN newPc' = "panic" /\ UNCHANGED closeVars
               ELSE /\ newPc' = "failed"
                    /\ closeChClosed' = TRUE
                    /\ portClosed' = TRUE
                    /\ UNCHANGED <<readChClosed, closePc>>
            /\ UNCHANGED <<readCh, setupTaken, config>>
    /\ UNCHANGED <<stream, pos, endOfPresetCh, written, decoded, appReceived,
                   sinceDrain, sinceWrite, drainedStale, droppedSignals, ackedCount>>
    /\ UNCHANGED <<loopVars, upVars>>
    /\ UNCHANGED encVars
    /\ UNCHANGED <<sendVars, resetAt>>

(***************************************************************************)
(* The application, once New has returned the connection                   *)
(***************************************************************************)
\* pkt := <-rfe.Chan()
AppRecv ==
    /\ ProcessAlive
    /\ newPc = "done"
    /\ readCh # <<>>
    /\ readCh' = Tail(readCh)
    /\ appReceived' = Append(appReceived, Head(readCh))
    /\ UNCHANGED <<stream, pos, endOfPresetCh, config, newPc, written, decoded,
                   setupTaken, sinceDrain, sinceWrite, drainedStale, droppedSignals,
                   ackedCount>>
    /\ UNCHANGED <<loopVars, closeVars, upVars>>
    /\ UNCHANGED encVars
    /\ UNCHANGED <<sendVars, resetAt>>

\* faulty variant of CloseSignal: the transport is closed before the stop signal
CloseSignalPortFirst ==
    /\ ProcessAlive
    /\ newPc = "done"
    /\ closePc = "idle"
    /\ portClosed' = TRUE
    /\ closePc' = "signalled"
    /\ UNCHANGED <<closeChClosed, readChClosed>>
    /\ UNCHANGED <<stream, pos, readCh, endOfPresetCh, config, newPc, written>>
    /\ UNCHANGED <<loopVars, upVars, histVars>>
    /\ UNCHANGED encVars
    /\ UNCHANGED <<sendVars, resetAt>>

\* Close, first statement: close(r.closeCh)
CloseSignal ==
    /\ ProcessAlive
    /\ newPc = "done"
    /\ closePc = "idle"
    /\ closeChClosed' = TRUE
    /\ closePc' = "signalled"
    /\ UNCHANGED <<portClosed, readChClosed>>
    /\ UNCHANGED <<stream, pos, readCh, endOfPresetCh, config, newPc, written>>
    /\ UNCHANGED <<loopVars, upVars, histVars>>
    /\ UNCHANGED encVars
    /\ UNCHANGED <<sendVars, resetAt>>

\* Close, second statement: close(r.readCh)
CloseChan ==
    /\ ProcessAlive
    /\ closePc = "signalled"
    /\ readChClosed' = TRUE
    /\ closePc' = "chanClosed"
    /\ UNCHANGED <<portClosed, closeChClosed>>
    /\ UNCHANGED <<stream, pos, readCh, endOfPresetCh, config, newPc, written>>
    /\ UNCHANGED <<loopVars, upVars, histVars>>
    /\ UNCHANGED encVars
    /\ UNCHANGED <<sendVars, resetAt>>

\* Close, third statement: return r.port.Close()
ClosePort ==
    /\ ProcessAlive
    /\ closePc = "chanClosed"
    /\ portClosed' = TRUE
    /\ closePc' = "done"
    /\ UNCHANGED <<readChClosed, closeChClosed>>
    /\ UNCHANGED <<stream, pos, readCh, endOfPresetCh, config, newPc, written>>
    /\ UNCHANGED <<loopVars, upVars, histVars>>
    /\ UNCHANGED encVars
    /\ UNCHANGED <<sendVars, resetAt>>

(***************************************************************************)
(* UpdatePreset                                                            *)
(***************************************************************************)
\* the frame is built, then: select { case <-r.endOfPresetCh: default: }
UpDrain ==
    /\ ProcessAlive
    /\ newPc = "done"
    /\ upPc = "idle"
    /\ upCalls < MaxUpdates
    /\ upCalls' = upCalls + 1
    /\ upResult' = "none"
    /\ drainedStale' = drainedStale + (endOfPresetCh - DrainEndOfPreset(endOfPresetCh))
    /\ endOfPresetCh' = DrainEndOfPreset(endOfPresetCh)
    /\ sinceDrain' = 0
    /\ upPc' = "write"
    /\ UNCHANGED sinceWrite
    /\ UNCHANGED <<stream, pos, readCh, config, newPc, written, decoded,
                   setupTaken, appReceived, droppedSignals, ackedCount>>
    /\ UNCHANGED <<loopVars, closeVars>>
    /\ UNCHANGED encVars
    /\ UNCHANGED <<sendVars, resetAt>>

\* faulty variant of UpWrite: a failed write is ignored and the call waits
UpWriteThenWaitAlways ==
    /\ ProcessAlive
    /\ upPc = "write"
    /\ \/ /\ ~portClosed
          /\ written' = Append(written, UpdatePresetFrame(AppPreset))
       \/ UNCHANGED written
    /\ upPc' = "wait"
    /\ UNCHANGED upResult
    /\ sinceWrite' = 0
    /\ UNCHANGED <<stream, pos, readCh, endOfPresetCh, config, newPc, upCalls>>
    /\ UNCHANGED <<decoded, setupTaken, appReceived, sinceDrain, drainedStale,
                   droppedSignals, ackedCount>>
    /\ UNCHANGED <<loopVars, closeVars>>
    /\ UNCHANGED encVars
    /\ UNCHANGED <<sendVars, resetAt>>

\* if err := r.write(buf[:36]); err != nil { return err }
UpWrite ==
    /\ ProcessAlive
    /\ upPc = "write"
    /\ \/ /\ ~portClosed
          /\ written' = Append(written, UpdatePresetFrame(AppPreset))
          /\ upPc' = "wait"
          /\ UNCHANGED upResult
       \/ /\ upPc' = "idle"
          /\ upResult' = "error"
          /\ UNCHANGED written
    /\ sinceWrite' = 0
    /\ UNCHANGED <<stream, pos, readCh, endOfPresetCh, config, newPc, upCalls>>
    /\ UNCHANGED <<decoded, setupTaken, appReceived, sinceDrain, drainedStale,
                   droppedSignals, ackedCount>>
    /\ UNCHANGED <<loopVars, closeVars>>
    /\ UNCHANGED encVars
    /\ UNCHANGED <<sendVars, resetAt>>

\* select { case <-r.endOfPresetCh: ... }; return nil
UpWaitAck ==
    /\ ProcessAlive
    /\ upPc = "wait"
    /\ endOfPresetCh > 0
    /\ endOfPresetCh' = endOfPresetCh - 1
    /\ upResult' = "ok"
    /\ upPc' = "idle"
    /\ ackedCount' = ackedCount + 1
    /\ UNCHANGED <<stream, pos, readCh, config, newPc, written, upCalls>>
    /\ UNCHANGED <<decoded, setupTaken, appReceived, sinceDrain, sinceWrite, drainedStale,
                   droppedSignals>>
    /\ UNCHANGED <<loopVars, closeVars>>
    /\ UNCHANGED encVars
    /\ UNCHANGED <<sendVars, resetAt>>

\* select { ... case <-ctx.Done(): return ctx.Err() }
UpWaitCancel ==
    /\ ProcessAlive
    /\ upPc = "wait"
    /\ upResult' = "cancelled"
    /\ upPc' = "idle"
    /\ UNCHANGED <<stream, pos, readCh, endOfPresetCh, config, newPc, written,
                   upCalls>>
    /\ UNCHANGED <<loopVars, closeVars, histVars>>
    /\ UNCHANGED encVars
    /\ UNCHANGED <<sendVars, resetAt>>

Next ==
    \/ NewStart
    \/ NewRequest
    \/ NewSetupRecv
    \/ LoopRead
    \/ LoopCheck
    \/ LoopDecode
    \/ LoopSend
    \/ AppRecv
    \/ CloseSignal
    \/ CloseChan
    \/ ClosePort
    \/ UpDrain
    \/ UpWrite
    \/ UpWaitAck
    \/ UpWaitCancel

Spec == Init /\ [][Next]_vars

(***************************************************************************)
(* One call of a command method on an open connection                      *)
(***************************************************************************)
\* the method returns: what it handed to port.Write, and its error; the
\* transport may fail any write (write's two error returns)
EncReturn(r) ==
    /\ encPc' = "returned"
    /\ encWrites' = r.frames
    /\ encResult' \in IF r.invalid THEN {"invalid"} ELSE {"ok", "writeError"}
    /\ writeBuf' = IF r.invalid THEN writeBuf
                   ELSE BufStore(writeBuf, 0, r.frames[1])
    /\ UNCHANGED <<encCall, sendPc, sendCmd, resetAt>>
    /\ UNCHANGED connVars

EncSendCommand ==
    /\ encPc = "call"
    /\ encCall.op = "SendCommand"
    /\ EncReturn(SendCommand(encCall.cmd))

EncSetLCDEnabled ==
    /\ encPc = "call"
    /\ encCall.op = "SetLCDEnabled"
    /\ EncReturn(SetLCDEnabled(encCall.args[1]))

EncSetSweepPoints ==
    /\ encPc = "call"
    /\ encCall.op = "SetSweepPoints"
    /\ EncReturn(SetSweepPoints(encCall.args[1]))

EncSetSweepPointsEx ==
    /\ encPc = "call"
    /\ encCall.op = "SetSweepPointsEx"
    /\ EncReturn(SetSweepPointsEx(encCall.args[1]))

EncSetAnalyzerConfig ==
    /\ encPc = "call"
    /\ encCall.op = "SetAnalyzerConfig"
    /\ EncReturn(SetAnalyzerConfig(encCall.args[1], encCall.args[2],
                                   encCall.args[3], encCall.args[4],
                                   encCall.args[5]))

\* an open connection (New has returned with a config, the read loop waits
\* for bytes) on which the application makes one call
InitEnc ==
    /\ stream = FrameConfig(1)
    /\ pos = Len(stream)
    /\ portClosed = FALSE
    /\ buf = <<>>
    /\ off = 0
    /\ loopPc = "read"
    /\ readN = 0
    /\ readErr = "none"
    /\ pendPkt = Nil
    /\ pendEol = 0
    /\ readCh = <<>>
    /\ readChClosed = FALSE
    /\ closeChClosed = FALSE
    /\ endOfPresetCh = 0
    /\ config = DecodeAll(FrameConfig(1))[1]
    /\ newPc = "done"
    /\ written = <<RequestConfigFrame>>
    /\ closePc = "idle"
    /\ upPc = "idle"
    /\ upResult = "none"
    /\ upCalls = 0
    /\ decoded = DecodeAll(FrameConfig(1))
    /\ setupTaken = DecodeAll(FrameConfig(1))
    /\ appReceived = <<>>
    /\ sinceDrain = 0
    /\ sinceWrite = 0
    /\ drainedStale = 0
    /\ droppedSignals = 0
    /\ ackedCount = 0
    /\ encCall \in EncCalls
    /\ encPc = "call"
    /\ encResult = "none"
    /\ encWrites = <<>>
    /\ writeBuf = RequestConfigFrame
    /\ sendPc = [c \in Callers |-> "idle"]
    /\ sendCmd = [c \in Callers |-> <<>>]
    /\ resetAt = <<>>

NextEnc ==
    \/ EncSendCommand
    \/ EncSetLCDEnabled
    \/ EncSetSweepPoints
    \/ EncSetSweepPointsEx
    \/ EncSetAnalyzerConfig

SpecEnc == InitEnc /\ [][NextEnc]_vars

(***************************************************************************)
(* SendCommand called by several goroutines at once.  The statements of    *)
(* SendCommand are the steps; r.writeBuf is shared and there is no lock.   *)
(***************************************************************************)
\* what a step of SendCommand leaves alone
SendFrame(c) ==
    /\ UNCHANGED <<stream, pos, portClosed, buf, off, loopPc, readN, readErr,
                   pendPkt, pendEol, readCh, readChClosed, closeChClosed,
                   endOfPresetCh, config, newPc, closePc, upPc, upResult,
                   upCalls, decoded, setupTaken, appReceived, sinceDrain, sinceWrite,
                   drainedStale, droppedSignals, ackedCount>>
    /\ UNCHANGED <<encVars, sendCmd, resetAt>>

\* if len(cmd) > 253 { return error }; the buffer of 256 bytes is never
\* replaced (an accepted command and its two framing bytes fit in it)
SendCheck(c) ==
    /\ sendPc[c] = "check"
    /\ sendPc' = [sendPc EXCEPT ![c] =
                     IF SendCommandAccepts(sendCmd[c]) THEN "hash" ELSE "done"]
    /\ UNCHANGED <<writeBuf, written>>
    /\ SendFrame(c)

\* r.writeBuf[0] = '#'
SendHash(c) ==
    /\ sendPc[c] = "hash"
    /\ writeBuf' = BufStore(writeBuf, 0, <<ChHash>>)
    /\ sendPc' = [sendPc EXCEPT ![c] = "len"]
    /\ UNCHANGED written
    /\ SendFrame(c)

\* r.writeBuf[1] = byte(2 + len(cmd))
SendLen(c) ==
    /\ sendPc[c] = "len"
    /\ writeBuf' = BufStore(writeBuf, 1, <<Byte(2 + Len(sendCmd[c]))>>)
    /\ sendPc' = [sendPc EXCEPT ![c] = "copy"]
    /\ UNCHANGED written
    /\ SendFrame(c)

\* copy(r.writeBuf[2:], cmd)
SendCopy(c) ==
    /\ sendPc[c] = "copy"
    /\ writeBuf' = BufStore(writeBuf, 2, sendCmd[c])
    /\ sendPc' = [sendPc EXCEPT ![c] = "write"]
    /\ UNCHANGED written
    /\ SendFrame(c)

\* return r.write(r.writeBuf[:2+len(cmd)]): the transport takes the bytes the
\* buffer holds now, or fails
SendWrite(c) ==
    /\ sendPc[c] = "write"
    /\ \/ written' = Append(written,
                             BufSlice(writeBuf, 0, 2 + Len(sendCmd[c])))
       \/ UNCHANGED written
    /\ sendPc' = [sendPc EXCEPT ![c] = "done"]
    /\ UNCHANGED writeBuf
    /\ SendFrame(c)

\* an open connection on which every caller is about to call SendCommand
InitRace ==
    /\ stream = FrameConfig(1)
    /\ pos = Len(stream)
    /\ portClosed = FALSE
    /\ buf = <<>>
    /\ off = 0
    /\ loopPc = "read"
    /\ readN = 0
    /\ readErr = "none"
    /\ pendPkt = Nil
    /\ pendEol = 0
    /\ readCh = <<>>
    /\ readChClosed = FALSE
    /\ closeChClosed = FALSE
    /\ endOfPresetCh = 0
    /\ config = DecodeAll(FrameConfig(1))[1]
    /\ newPc = "done"
    /\ written = <<RequestConfigFrame>>
    /\ closePc = "idle"
    /\ upPc = "idle"
    /\ upResult = "none"
    /\ upCalls = 0
    /\ decoded = DecodeAll(FrameConfig(1))
    /\ setupTaken = DecodeAll(FrameConfig(1))
    /\ appReceived = <<>>
    /\ sinceDrain = 0
    /\ sinceWrite = 0
    /\ drainedStale = 0
    /\ droppedSignals = 0
    /\ ackedCount = 0
    /\ encCall = NoCall
    /\ encPc = "idle"
    /\ encResult = "none"
    /\ encWrites = <<>>
    /\ writeBuf = RequestConfigFrame
    /\ sendPc = [c \in Callers |-> "check"]
    /\ sendCmd \in [Callers -> RaceCmds]
    /\ resetAt = <<>>

NextRace ==
    \/ \E c \in Callers : SendCheck(c)
    \/ \E c \in Callers : SendHash(c)
    \/ \E c \in Callers : SendLen(c)
    \/ \E c \in Callers : SendCopy(c)
    \/ \E c \in Callers : SendWrite(c)

SpecRace == InitRace /\ [][NextRace]_vars

(***************************************************************************)
(* The read loop and one consumer on an open connection                    *)
(***************************************************************************)
\* New has returned: the read loop read the config line in one read and
\* handed its packet to New; the instrument goes on sending
OpenConnection ==
    /\ pos = Len(FrameConfig(1))
    /\ portClosed = FALSE
    /\ buf = <<>>
    /\ off = 0
    /\ loopPc = "read"
    /\ readN = 0
    /\ readErr = "none"
    /\ pendPkt = Nil
    /\ pendEol = 0
    /\ readCh = <<>>
    /\ readChClosed = FALSE
    /\ closeChClosed = FALSE
    /\ endOfPresetCh = 0
    /\ config = DecodeAll(FrameConfig(1))[1]
    /\ newPc = "done"
    /\ written = <<RequestConfigFrame>>
    /\ closePc = "idle"
    /\ upPc = "idle"
    /\ upResult = "none"
    /\ upCalls = 0
    /\ decoded = DecodeAll(FrameConfig(1))
    /\ setupTaken = DecodeAll(FrameConfig(1))
    /\ appReceived = <<>>
    /\ sinceDrain = 0
    /\ sinceWrite = 0
    /\ drainedStale = 0
    /\ droppedSignals = 0
    /\ ackedCount = 0
    /\ encCall = NoCall
    /\ encPc = "idle"
    /\ encResult = "none"
    /\ encWrites = <<>>
    /\ writeBuf = RequestConfigFrame
    /\ sendPc = [c \in Callers |-> "idle"]
    /\ sendCmd = [c \in Callers |-> <<>>]
    /\ resetAt = <<>>

InitDec ==
    /\ \E tail \in DecStreams : stream = FrameConfig(1) \o tail
    /\ OpenConnection

NextDec ==
    \/ LoopRead
    \/ LoopCheck
    \/ LoopDecode
    \/ LoopSend
    \/ AppRecv

SpecDec == InitDec /\ [][NextDec]_vars

(***************************************************************************)
(* The read loop ahead of a slow consumer                                  *)
(***************************************************************************)
InitBack ==
    /\ stream = FrameConfig(1) \o StreamBacklog
    /\ OpenConnection

SpecBack == InitBack /\ [][NextDec]_vars

(***************************************************************************)
(* UpdatePreset called by the only consumer of the packet channel          *)
(***************************************************************************)
InitAck ==
    /\ \E tail \in AckStreams : stream = FrameConfig(1) \o tail
    /\ OpenConnection

\* port.Read returns once the instrument has sent something, and it sends
\* only after the preset update frame has been written to it
ReadReply ==
    /\ Len(written) >= 2
    /\ LoopRead

\* the caller of UpdatePreset receives from Chan() when it is not inside
\* UpdatePreset
CallerRecv ==
    /\ upPc = "idle"
    /\ AppRecv

\* the context of the call is never cancelled
NextAck ==
    \/ UpDrain
    \/ UpWrite
    \/ UpWaitAck
    \/ ReadReply
    \/ LoopCheck
    \/ LoopDecode
    \/ LoopSend
    \/ CallerRecv

SpecAck == InitAck /\ [][NextAck]_vars


(***************************************************************************)
(* Properties                                                              *)
(***************************************************************************)
IsPrefix(s, t) == Len(s) <= Len(t) /\ SubSeq(t, 1, Len(s)) = s

Last(s) == s[Len(s)]

RECURSIVE LastConfig(_)
LastConfig(s) ==
    IF s = <<>> THEN Nil
    ELSE IF Last(s).type = "CurrentConfig" THEN Last(s)
    ELSE LastConfig(SubSeq(s, 1, Len(s) - 1))

NumOfType(s, t) == Cardinality({i \in 1..Len(s) : s[i].type = t})

\* C1: the packets received from Chan() (by New, then by the application),
\* followed by those still buffered in the channel, are a prefix of the
\* packets the read loop decoded: no reordering, duplication or omission.
C1_FifoDelivery == IsPrefix(setupTaken \o appReceived \o readCh, decoded)

C1_Witness ==
    /\ Len(setupTaken) >= 2
    /\ Len(appReceived) >= 2
    /\ appReceived[1] # appReceived[2]

\* C2: once the read loop has read and decoded the whole (valid) stream, the
\* packets it decoded are those decoded when the stream arrives in one read,
\* however the transport split the stream.
C2_SplitIndependence ==
    (loopPc = "read" /\ pos = Len(stream)) => decoded = DecodeAll(stream)

\* C3: the first frame of StreamSweepEol is a "$S" frame whose samples hold
\* 0x0D 0x0A; whatever the split, the first packet decoded is the SweepData
\* packet with the declared number of samples.
C3_SweepWithEolIsOneFrame ==
    (stream = StreamSweepEol /\ decoded # <<>>)
        => decoded[1] = [type |-> "SweepData", Samples |-> <<-65, -50, -5>>]

\* C4: after open, Config() is the most recent CurrentConfig packet the read
\* loop has decoded.
C4_ConfigIsLatestDecoded ==
    newPc = "done" => config = LastConfig(decoded)

\* C5: New starts the read loop, writes one config request and returns only
\* after receiving a CurrentConfig packet from the channel; that packet is the
\* config cache, every packet taken before it has another type, and the
\* application receives only packets that come after those New took.
C5_OpenHandshake ==
    /\ newPc = "start" => loopPc = "idle"
    /\ newPc # "done" => config = Nil /\ appReceived = <<>>
    /\ newPc = "done" =>
          /\ loopPc # "idle"
          /\ written # <<>>
          /\ written[1] = <<35, 4, 67, 48>>
          /\ Cardinality({i \in 1..Len(written) : written[i] = <<35, 4, 67, 48>>}) = 1
          /\ setupTaken # <<>>
          /\ Last(setupTaken).type = "CurrentConfig"
          /\ \A i \in 1..(Len(setupTaken) - 1) :
                setupTaken[i].type # "CurrentConfig"
          /\ config = Last(setupTaken)
          /\ IsPrefix(setupTaken \o appReceived, decoded)

C5_Witness ==
    /\ newPc = "done"
    /\ Len(setupTaken) >= 2
    /\ appReceived # <<>>

\* C6: when the read loop ends on a transport failure while open is still
\* waiting for the first config, open ends by returning an error: the process
\* has not been terminated under it.
C6_OpenFailsWithErrorValue ==
    (newPc = "setupLoop" /\ readErr = "io") => loopPc # "fatal"

\* C7: Close raises the stop signal, then closes the packet channel, then
\* closes the transport: the channel is never closed before the signal and
\* the transport never before the channel and the signal.
C7_CloseOrder ==
    /\ readChClosed => closeChClosed
    /\ portClosed => (readChClosed /\ closeChClosed)
    /\ closePc = "signalled" => (closeChClosed /\ ~readChClosed /\ ~portClosed)
    /\ closePc = "chanClosed" => (closeChClosed /\ readChClosed /\ ~portClosed)

C7_Witness == closePc = "done" /\ portClosed /\ readChClosed /\ closeChClosed

\* C8: a read error the read loop sees because Close closed the transport
\* never takes the read loop to its fatal-error path.
C8_CloseStopsLoopQuietly == readErr = "closed" => loopPc # "fatal"

\* C9: when a transport read fails and Close has not been called, the
\* dispatch channel is closed.
C9_ReadErrorClosesChannel ==
    (readErr = "io" /\ closePc = "idle") => readChClosed

\* C10: an UpdatePreset call that returned success was completed by a "#PCK"
\* decoded after its drain; after the drain the acknowledgment channel holds
\* no signal older than the drain; and every decoded "#PCK" completes at most
\* one call.
C10_AckUnblocksOnce ==
    /\ upResult = "ok" => sinceDrain >= 1
    /\ upCalls >= 1 => endOfPresetCh <= sinceDrain
    /\ ackedCount + drainedStale + endOfPresetCh <= NumOfType(decoded, "EndOfPresets")

C10_Witness == upResult = "ok" /\ drainedStale >= 1 /\ ackedCount = 1

\* C11: the acknowledgment channel never holds more than one signal; a "#PCK"
\* decoded while a signal is pending leaves the channel as it was (its signal
\* is dropped, the read loop goes on to handlePacket); and each decoded "#PCK"
\* line hands exactly one EndOfPresets packet to handlePacket, whether its
\* signal was buffered, consumed, drained or dropped.
C11_AckChannelBounded ==
    /\ endOfPresetCh \in 0..1
    /\ NumOfType(decoded, "EndOfPresets")
          = ackedCount + drainedStale + endOfPresetCh + droppedSignals
    /\ droppedSignals >= 1 => NumOfType(decoded, "EndOfPresets") >= 2

C11_Witness ==
    /\ droppedSignals >= 1
    /\ endOfPresetCh = 1
    /\ NumOfType(appReceived, "EndOfPresets") = 2

\* C12: UpdatePreset first hands the 36-byte frame to the transport; it waits
\* only after that write succeeded, and while it waits it has not returned;
\* it leaves the wait either by taking the acknowledgment signal (result
\* success) or by cancellation (result the cancellation error, the signal
\* channel untouched); when the write fails it returns that error at once,
\* nothing written and no wait.
C12_UpdatePresetOutcome ==
    [][/\ upPc = "wait" => upResult = "none"
       /\ (upPc = "write" /\ upPc' = "wait") =>
             written' = Append(written,
                 <<35, 36, 67, 80, 1, 1, 65, 76, 0, 0, 0, 0, 0, 0, 0, 0, 0, 0,
                   0, 0, 104, 155, 6, 0, 80, 159, 6, 0, 0, 246, 146, 1, 1, 0,
                   66, 0>>)
       /\ (upPc = "write" /\ upPc' # "write" /\ written' = written) =>
             /\ upPc' = "idle"
             /\ upResult' = "error"
             /\ endOfPresetCh' = endOfPresetCh
       /\ (upPc = "wait" /\ upPc' # "wait") =>
             /\ upPc' = "idle"
             /\ \/ upResult' = "ok" /\ endOfPresetCh = 1 /\ endOfPresetCh' = 0
                \/ upResult' = "cancelled" /\ endOfPresetCh' = endOfPresetCh
       /\ (upResult' # upResult /\ upResult' \in {"ok", "cancelled"}) =>
             upPc = "wait"
       /\ (upResult' # upResult /\ upResult' = "error") => upPc = "write"
      ]_vars

C12_Witness ==
    /\ upCalls = 2
    /\ ackedCount = 1
    /\ upResult = "error"
    /\ Len(written) = 2

\* the call under study has returned
Returned(op) == encPc = "returned" /\ encCall.op = op

\* the bytes after the two framing bytes of the only frame written
WrittenPayload == SubSeq(encWrites[1], 3, Len(encWrites[1]))

AllDigits(f) == \A k \in 1..Len(f) : IsDigit(f[k])

Clamp(x, lo, hi) == IF x < lo THEN lo ELSE IF x > hi THEN hi ELSE x

\* C13: SendCommand with a command longer than 253 bytes returns the
\* validation error and hands nothing to the transport; with a command of 0
\* to 253 bytes it is not refused and hands one frame to the transport.
C13_LongCommandRefused ==
    Returned("SendCommand") =>
        IF Len(encCall.cmd) > 253
        THEN encResult = "invalid" /\ encWrites = <<>>
        ELSE encResult # "invalid" /\ Len(encWrites) = 1

C13_Witness ==
    /\ Returned("SendCommand")
    /\ Len(encCall.cmd) = 254
    /\ encResult = "invalid"

\* C14: a command method that accepts its arguments makes exactly one
\* transport write; its bytes are 0x23, a length byte equal to the length of
\* the whole frame, in 2..255, and the payload; for SendCommand the payload
\* is the command unchanged and the length byte is 2 + len(cmd); SetLCDEnabled
\* writes the frame of the payload "L1" or "L0".
C14_FrameLayout ==
    /\ (encPc = "returned" /\ encResult # "invalid") =>
          /\ Len(encWrites) = 1
          /\ Len(encWrites[1]) >= 2
          /\ encWrites[1][1] = 35
          /\ encWrites[1][2] = Len(encWrites[1])
          /\ encWrites[1][2] \in 2..255
    /\ (Returned("SendCommand") /\ encResult # "invalid") =>
          /\ encWrites[1][2] = 2 + Len(encCall.cmd)
          /\ WrittenPayload = encCall.cmd
    /\ Returned("SetLCDEnabled") =>
          encWrites = << <<35, 4, 76, IF encCall.args[1] THEN 49 ELSE 48>> >>

C14_Witness ==
    /\ Returned("SendCommand")
    /\ Len(encCall.cmd) = 253
    /\ encResult = "ok"
    /\ encWrites[1][2] = 255

\* C15: SetAnalyzerConfig with a start or an end frequency outside
\* [0, 9999999] returns the validation error and hands nothing to the
\* transport, whatever the amplitudes and the RBW.
C15_FrequencyRangeRefused ==
    (/\ Returned("SetAnalyzerConfig")
     /\ \/ encCall.args[1] \notin 0..9999999
        \/ encCall.args[2] \notin 0..9999999)
        => encResult = "invalid" /\ encWrites = <<>>

C15_Witness ==
    /\ Returned("SetAnalyzerConfig")
    /\ encCall.args[1] = 433000
    /\ encCall.args[2] = 10000000
    /\ encResult = "invalid"

\* C16: for frequencies in range and any amplitudes, the payload is "C2-F:",
\* the start and the end as 7 digits, the two amplitudes as 4 characters (a
\* sign or a digit, then digits), separated by commas, then nothing or a
\* comma and 5 digits: 30 or 36 bytes; the frequency fields read back as the
\* arguments.
C16_PayloadTemplate ==
    (/\ Returned("SetAnalyzerConfig")
     /\ encCall.args[1] \in 0..9999999
     /\ encCall.args[2] \in 0..9999999)
        => /\ encResult # "invalid"
           /\ Len(encWrites) = 1
           /\ LET p == WrittenPayload
              IN  /\ Len(p) \in {30, 36}
                  /\ SubSeq(p, 1, 5) = <<67, 50, 45, 70, 58>>
                  /\ AllDigits(SubSeq(p, 6, 12))
                  /\ DigitsValue(SubSeq(p, 6, 12)) = encCall.args[1]
                  /\ p[13] = 44
                  /\ AllDigits(SubSeq(p, 14, 20))
                  /\ DigitsValue(SubSeq(p, 14, 20)) = encCall.args[2]
                  /\ p[21] = 44
                  /\ Atoi(SubSeq(p, 22, 25)).ok
                  /\ p[26] = 44
                  /\ Atoi(SubSeq(p, 27, 30)).ok
                  /\ Len(p) = 36 => (p[31] = 44 /\ AllDigits(SubSeq(p, 32, 36)))

C16_Witness ==
    /\ Returned("SetAnalyzerConfig")
    /\ encResult = "ok"
    /\ encCall.args[3] = 7
    /\ encCall.args[4] = -1000
    /\ Len(WrittenPayload) = 36

\* C17: the amplitude top sent is the argument clamped to [-120, 0]; the
\* amplitude bottom sent is -120 when the argument is not strictly below the
\* clamped top or is below -120, and the argument otherwise; both are in
\* [-120, 0].
C17_AmplitudeClamp ==
    (Returned("SetAnalyzerConfig") /\ encResult # "invalid") =>
        LET top == Atoi(SubSeq(WrittenPayload, 22, 25)).val
            bottom == Atoi(SubSeq(WrittenPayload, 27, 30)).val
            expTop == Clamp(encCall.args[3], -120, 0)
            expBottom == IF encCall.args[4] >= expTop \/ encCall.args[4] < -120
                         THEN -120 ELSE encCall.args[4]
        IN  /\ top = expTop
            /\ bottom = expBottom
            /\ top \in -120..0
            /\ bottom \in -120..0

C17_Witness ==
    /\ Returned("SetAnalyzerConfig")
    /\ encResult = "ok"
    /\ encCall.args[3] = -50
    /\ encCall.args[4] = -50
    /\ Atoi(SubSeq(WrittenPayload, 27, 30)).val = -120

\* round(a / b) for a >= 0, b > 0
RoundDiv(a, b) == (2 * a + b) \div (2 * b)

\* C18: with a requested RBW outside [3, 670] no RBW field is sent; with one
\* inside and end >= start, steps is round((end - start) / rbw) clamped to
\* [112, 65535], the RBW is round((end - start) / steps), and the field is
\* sent exactly when that value is in [3, 620), holding that value; with
\* end < start no field is sent; a field that is sent is always in [3, 620).
C18_RbwField ==
    (Returned("SetAnalyzerConfig") /\ encResult # "invalid") =>
        LET span == encCall.args[2] - encCall.args[1]
            rbw == encCall.args[5]
            has == Len(WrittenPayload) = 36
            val == DigitsValue(SubSeq(WrittenPayload, 32, 36))
            steps == Clamp(RoundDiv(span, rbw), 112, 65535)
            rbw2 == RoundDiv(span, steps)
        IN  /\ rbw \notin 3..670 => ~has
            /\ has => val \in 3..619
            /\ span < 0 => ~has
            /\ (rbw \in 3..670 /\ span >= 0) =>
                  /\ has <=> rbw2 \in 3..619
                  /\ has => val = rbw2

C18_Witness ==
    /\ Returned("SetAnalyzerConfig")
    /\ encResult = "ok"
    /\ encCall.args[1] = 0
    /\ encCall.args[2] = 9999999
    /\ encCall.args[5] = 3
    /\ Len(WrittenPayload) = 36
    /\ DigitsValue(SubSeq(WrittenPayload, 32, 36)) = 153

\* C19: SetSweepPoints(n) sends the command "CJ" and one byte equal to
\* floor((clamp(n, 16, 4096) - 16) / 16), which is in 0..255.
C19_SweepPointsByte ==
    Returned("SetSweepPoints") =>
        /\ encResult # "invalid"
        /\ encWrites = << <<35, 5, 67, 74,
                            (Clamp(encCall.args[1], 16, 4096) - 16) \div 16>> >>
        /\ encWrites[1][5] \in 0..255

C19_Witness ==
    /\ Returned("SetSweepPoints")
    /\ encCall.args[1] = 4097
    /\ encWrites[1][5] = 255

\* C20: SetSweepPointsEx(n) sends the command "Cj" and two bytes, high then
\* low, with 256 * high + low = clamp(n, 112, 65536).
C20_SweepPointsExRoundTrip ==
    Returned("SetSweepPointsEx") =>
        /\ encResult # "invalid"
        /\ Len(encWrites) = 1
        /\ SubSeq(encWrites[1], 1, 4) = <<35, 6, 67, 106>>
        /\ Len(encWrites[1]) = 6
        /\ 256 * encWrites[1][5] + encWrites[1][6]
              = Clamp(encCall.args[1], 112, 65536)

\* the packets decoded since New returned
DecodedAfterOpen == SubSeq(decoded, 2, Len(decoded))

\* the read loop has read the whole stream and decoded all it can
LoopQuiet == loopPc = "read" /\ pos = Len(stream)

\* C21: each of the three unmatched lines of StreamUnmatched ("K1", the bare
\* "#" and "#K1") is emitted as one Unhandled packet carrying the bytes
\* before its end-of-line marker, and removed with the marker: the read loop
\* does not crash on any of them and, once all is read, has emitted the three
\* packets and emptied the buffer.
C21_UnmatchedLinesEmitted ==
    stream = FrameConfig(1) \o StreamUnmatched =>
        /\ loopPc # "panic"
        /\ IsPrefix(DecodedAfterOpen,
                    <<[type |-> "UnhandledPacket", Data |-> <<75, 49>>],
                      [type |-> "UnhandledPacket", Data |-> <<35>>],
                      [type |-> "UnhandledPacket", Data |-> <<35, 75, 49>>]>>)
        /\ LoopQuiet => (Len(DecodedAfterOpen) = 3 /\ off = 0)

\* C22: when the read loop hands on a packet while the buffer starts with a
\* complete "$S" frame (count n, n sample bytes, the end-of-line marker), the
\* packet is a SweepData of exactly n samples, sample i being -byte[i]/2 dBm
\* (-5 * byte[i] tenths, the byte unsigned), and the frame and its marker are
\* what is removed; a frame whose samples hold no end-of-line marker is decoded
\* into that one packet however the transport splits it.
C22_SweepSamples ==
    /\ (/\ loopPc = "send"
        /\ BufAt(buf, 0) = 36 /\ BufAt(buf, 1) = 83
        /\ off >= 3 + BufAt(buf, 2) + 2
        /\ BufAt(buf, 3 + BufAt(buf, 2)) = 13
        /\ BufAt(buf, 4 + BufAt(buf, 2)) = 10)
          => /\ pendPkt = [type |-> "SweepData",
                           Samples |-> [i \in 1..BufAt(buf, 2) |->
                                           -5 * BufAt(buf, 2 + i)]]
             /\ pendEol = 3 + BufAt(buf, 2)
    /\ \A n \in {0, 255} :
          (stream = FrameConfig(1) \o FrameSweep(SweepSamples(n)) /\ LoopQuiet)
             => DecodedAfterOpen
                    = <<[type |-> "SweepData",
                         Samples |-> [i \in 1..n |-> -5 * ((97 * i + 200) % 256)]]>>

C22_Witness ==
    /\ loopPc = "send"
    /\ pendPkt.type = "SweepData"
    /\ Len(pendPkt.Samples) = 255
    /\ \E i \in 1..255 : BufAt(buf, 2 + i) = 255 /\ pendPkt.Samples[i] = -1275

\* C23: with several callers inside SendCommand at once, every write the
\* transport receives is the complete frame of one of the calls: '#', the
\* length byte of that call, the command of that call.
C23_WritesAreWholeFrames ==
    \A i \in 2..Len(written) :
        \E c \in Callers :
            /\ Len(written[i]) = 2 + Len(sendCmd[c])
            /\ written[i][1] = 35
            /\ written[i][2] = 2 + Len(sendCmd[c])
            /\ SubSeq(written[i], 3, Len(written[i])) = sendCmd[c]

\* C24: on StreamPreset (one "$P" frame, then "#K1") a Preset packet is
\* handed on only when the whole fixed layout is buffered, it is the preset of
\* the frame, and the frame's bytes are what is removed: the packets decoded
\* are the preset and then the Unhandled "#K1", nothing else.
C24_PresetNeedsFullLayout ==
    stream = FrameConfig(1) \o StreamPreset =>
        /\ (loopPc = "send" /\ pendPkt.type = "Preset") =>
              (off >= 35 /\ pendEol + 2 = 37)
        /\ IsPrefix(DecodedAfterOpen,
                    <<[type |-> "Preset", Index |-> 1, Name |-> <<65, 76>>,
                       MinFreqKHz |-> 433000, MaxFreqKHz |-> 434000,
                       CalcMode |-> 0, AmpTopDBm |-> -10, AmpBottomDBm |-> -110,
                       CalcIterations |-> 1, Mainboard |-> TRUE,
                       MarkerMode |-> 0],
                      [type |-> "UnhandledPacket", Data |-> <<35, 75, 49>>]>>)

\* the bytes of the stream read since New returned
ReadAfterOpen == pos - Len(FrameConfig(1))

\* C25 as stated, on StreamScreen: a decode pass never ends with 1026 or
\* more bytes of the dump buffered and no ScreenImage handed on, and handing
\* it on removes exactly 1026 bytes.
C25_ScreenDump1026 ==
    stream = FrameConfig(1) \o StreamScreen =>
        /\ ~(/\ loopPc = "read"
              /\ BufAt(buf, 0) = 36 /\ BufAt(buf, 1) = 68
              /\ off >= 1026)
        /\ (loopPc = "send" /\ pendPkt.type = "ScreenImage") =>
              pendEol + 2 = 1026

\* C25 amended (1028 for 1026): nothing is emitted while fewer than 1028
\* bytes of the dump are buffered; as soon as 1028 are, a ScreenImage carrying
\* buffer bytes 2..1025 is handed on and exactly 1028 bytes are removed (the
\* dump and the two bytes after it, the end-of-line marker the instrument
\* sends), so the frame that follows the marker is decoded whole.
C25_ScreenDump1028 ==
    stream = FrameConfig(1) \o StreamScreen =>
        /\ ReadAfterOpen < 1028 => DecodedAfterOpen = <<>>
        /\ ~(/\ loopPc = "read"
              /\ BufAt(buf, 0) = 36 /\ BufAt(buf, 1) = 68
              /\ off >= 1028)
        /\ (loopPc = "send" /\ pendPkt.type = "ScreenImage") =>
              /\ off >= 1028
              /\ pendPkt.Data = [k \in 1..1024 |-> BufAt(buf, k + 1)]
              /\ pendEol + 2 = 1028
        /\ IsPrefix(DecodedAfterOpen,
                    <<[type |-> "ScreenImage",
                       Data |-> [k \in 1..1024 |-> (k % 251) + 1]],
                      [type |-> "UnhandledPacket", Data |-> <<35, 75, 49>>]>>)
        /\ LoopQuiet => (Len(DecodedAfterOpen) = 2 /\ off = 0)

C25_Witness ==
    /\ stream = FrameConfig(1) \o StreamScreen
    /\ LoopQuiet
    /\ Len(DecodedAfterOpen) = 2
    /\ DecodedAfterOpen[1].type = "ScreenImage"
    /\ DecodedAfterOpen[2].type = "UnhandledPacket"

\* C26: on StreamRaw (a "$R" frame of payload length 3, then "#K1") the frame
\* is 4 + 3 bytes long: nothing is handed on while fewer than 7 bytes are
\* buffered, a RawData of the 3 payload bytes is handed on once 7 are, exactly
\* 7 bytes are removed, and so the "#K1" line behind the frame is decoded
\* whole and the read loop does not crash.
C26_RawFrameLength ==
    stream = FrameConfig(1) \o StreamRaw =>
        /\ loopPc # "panic"
        /\ ReadAfterOpen < 7 => DecodedAfterOpen = <<>>
        /\ (loopPc = "send" /\ pendPkt.type = "RawData") =>
              (off >= 7 /\ pendEol + 2 = 7)
        /\ IsPrefix(DecodedAfterOpen,
                    <<[type |-> "RawData", Data |-> <<7, 0, 200>>],
                      [type |-> "UnhandledPacket", Data |-> <<35, 75, 49>>]>>)

\* C27: while the buffer starts with a "$S" frame of declared count n and
\* holds fewer than 3 + n bytes, decoding halts: no packet is handed on and
\* nothing is removed, even when an end-of-line marker is among the sample
\* bytes buffered so far; so the sweep of five samples <<0, 255, 13, 10, 128>>
\* is decoded as that one SweepData packet or not yet at all.
C27_ShortSweepWaits ==
    /\ (/\ loopPc = "send"
        /\ BufAt(buf, 0) = 36 /\ BufAt(buf, 1) = 83
        /\ off > 3)
          => off >= 3 + BufAt(buf, 2)
    /\ stream = FrameConfig(1) \o FrameSweep(SamplesFive) =>
          IsPrefix(DecodedAfterOpen,
                   <<[type |-> "SweepData",
                      Samples |-> <<0, -1275, -65, -50, -640>>]>>)

\* the packets decoded since the last reset of a buffer near its capacity
DecodedAfterReset == SubSeq(decoded, resetAt[2] + 1, Len(decoded))

\* the bytes the instrument sent after those read before that reset
StreamAfterReset == SubSeq(stream, resetAt[1] + 1, Len(stream))

SendBlocked == loopPc = "send" /\ Len(readCh) = ReadChCap /\ ~readChClosed

\* C29: the packet channel never holds more than ReadChCap (16) packets;
\* while it is full and the read loop is in its send, no step changes the
\* read loop: it stays in the send, reads nothing from the transport and
\* decodes nothing; no decoded packet is dropped (the packets decoded are, in
\* order, those received, those in the channel and the one being sent); and
\* the send completes only into a channel with room, where it appends the
\* packet and the loop goes on decoding.
C29_Backpressure ==
    /\ [](Len(readCh) <= ReadChCap)
    /\ [](decoded = setupTaken \o appReceived \o readCh
                       \o (IF loopPc = "send" THEN <<pendPkt>> ELSE <<>>))
    /\ [][SendBlocked => UNCHANGED <<loopPc, pos, buf, off, readN, pendPkt,
                                     decoded>>]_vars
    /\ [][(loopPc = "send" /\ loopPc' # "send")
            => /\ Len(readCh) < ReadChCap
               /\ readCh' = Append(readCh, pendPkt)
               /\ loopPc' = "decode"]_vars

\* the read loop was blocked with its seventeenth packet on a full channel;
\* the application has taken one packet, no more, and the send has completed:
\* the channel is full again and the loop is decoding the next line
C29_Witness ==
    /\ Len(readCh) = ReadChCap
    /\ Len(appReceived) = 1
    /\ loopPc = "decode"
    /\ readCh[ReadChCap]
          = [type |-> "UnhandledPacket", Data |-> <<35, 75, 48 + ReadChCap + 1>>]
    /\ Len(decoded) = ReadChCap + 2

\* C30: in every state of the read loop 0 <= off <= BufCap; the consume step
\* never removes more bytes than are buffered (eolIdx + 2 <= off when a packet
\* is handed on); and the slice buf[off:] given to the next transport read is
\* in bounds and not empty.
C30_OffsetInBounds ==
    /\ 0 <= off /\ off <= BufCap
    /\ loopPc = "send" => pendEol + 2 <= off
    /\ loopPc = "read" => (0 <= ResetOff(off) /\ ResetOff(off) < BufCap)

\* C31: however Close interleaves with the read loop, the read loop is never
\* inside handlePacket's send (about to send, or blocked on a full channel)
\* once Close has closed the packet channel.
C31_NoSendAfterClose == readChClosed => loopPc # "send"

\* C32: an UpdatePreset call that returned success was completed by a "#PCK"
\* line decoded after the call wrote its frame to the transport; a "#PCK"
\* decoded between the drain and the write never completes the call.
C32_AckDecodedAfterWrite == upResult = "ok" => sinceWrite >= 1

\* C33: an UpdatePreset call whose "#PCK" arrives after its write returns
\* success without anyone receiving from the packet channel meanwhile; so
\* the call never waits, with no signal pending, while the read loop is
\* blocked in its send on a full channel before it has decoded the "#PCK" (in
\* that state nothing but a receive from the channel lets the loop go on).
C33_AckReachesWaiter ==
    ~(/\ upPc = "wait"
      /\ endOfPresetCh = 0
      /\ sinceWrite = 0
      /\ pos < Len(stream) \/ off > 0
      /\ SendBlocked)

\* C34: once New has failed because its config request could not be written,
\* nothing is left running: the read loop it started has stopped and the
\* transport is closed.
C34_FailedOpenLeavesNothing ==
    (newPc = "failed" /\ written = <<>>) =>
        /\ portClosed
        /\ loopPc \notin {"read", "check", "decode", "send"}

\* C35: on a "#C2-F:" line of fewer than 13 fields, a "#C4-F:" line of fewer
\* than 7 fields, a "#S" line and a "#P" line, each ended by the end-of-line
\* marker, the read loop does not fault: the line is decoded or emitted as
\* one Unhandled packet, and decoding goes on with the "#K1" line behind it.
C35_NoFaultOnShortLines ==
    (\E tail \in ShortLineStreams : stream = FrameConfig(1) \o tail) =>
        /\ loopPc # "panic"
        /\ LoopQuiet =>
              /\ Len(DecodedAfterOpen) = 2
              /\ DecodedAfterOpen[2]
                    = [type |-> "UnhandledPacket", Data |-> <<35, 75, 49>>]
              /\ off = 0

\* C36: in every command SetAnalyzerConfig sends, the amplitude bottom field
\* reads as a value strictly below the amplitude top field, whatever the
\* amplitude arguments.
C36_BottomBelowTop ==
    (Returned("SetAnalyzerConfig") /\ encResult # "invalid") =>
        Atoi(SubSeq(WrittenPayload, 27, 30)).val
            < Atoi(SubSeq(WrittenPayload, 22, 25)).val

=============================================================================
